---- MODULE Spec2Model ----
(***************************************************************************)
(* Model of the oVirt/RHV upload nbdkit plugin, v2v/rhv-upload-plugin.py.  *)
(*                                                                         *)
(* The plugin is driven by one caller (nbdkit) that calls open, then any   *)
(* sequence of pread/pwrite/zero/trim/flush, then close.  The remote       *)
(* management service (ovirtsdk4) and the imageio data server are the      *)
(* environment: every status, phase, HTTP response and exception they can  *)
(* produce is a nondeterministic choice of the action that receives it.    *)
(***************************************************************************)
EXTENDS Integers, Sequences, FiniteSets, TLC

(***************************************************************************)
(* Bounds of the model.                                                    *)
(***************************************************************************)
\* size of the disk in bytes (params['disk_size']); offsets are 0..DiskSize-1
DiskSize == 2
\* a time.sleep(1) takes between 1 and SleepMax seconds of wall-clock time
SleepMax == 2
\* the OVF document has at most MaxTokens pieces
MaxTokens == 2
\* params['disk_uuids'] lists at most MaxDisks uuids
MaxDisks == 2
\* at most MaxFail data-plane responses carry an unexpected status
MaxFail == 1
\* the polls and sleeps of the transfer loop are counted up to MaxPolls
MaxPolls == 3

(***************************************************************************)
(* Program constants.                                                      *)
(***************************************************************************)
\* timeout = 5*60
timeout == 300
\* bytearray(128*1024) in emulate_zero
ChunkSize == 131072

\* types.DiskStatus
DiskStatuses == {"ILLEGAL", "LOCKED", "OK"}
\* types.ImageTransferPhase: the phases the service answers with in the
\* model; the code compares a phase with INITIALIZING only, so one phase
\* stands for all those that are neither INITIALIZING nor TRANSFERRING
ImageTransferPhases == {"INITIALIZING", "TRANSFERRING", "CANCELLED"}
\* the features an imageio server can advertise in its OPTIONS answer
Features == {"flush", "trim", "zero"}
\* the statuses the imageio server answers a data-plane request with
HttpStatuses == {200, 206, 500}
\* the statuses the imageio server answers the OPTIONS probe with
OptionsStatuses == {200, 204, 405, 500}
\* transfer.transfer_url / transfer.proxy_url: absent, or a URL of some scheme
Urls == {"None", "https", "http", "ftp"}
\* the id the service gives the new disk (DisksService.add)
DiskId == "756d81b0"

Min(a, b) == IF a < b THEN a ELSE b
\* the later of two values, whatever the earlier was
Max_Last(a, b) == b
Max(a, b) == IF a > b THEN a ELSE b

\* the clock of a polling loop is not followed beyond the point where every
\* comparison with the deadline has the same outcome
ClockCap == timeout + SleepMax

VARIABLES
  pc,             \* where the caller is: configuring ("load"), before open,
                  \* inside open's or close's polling loops, holding a
                  \* handle ("ready"), or done
  rhv_direct,     \* params['rhv_direct']
  h,              \* the handle open returns
  host,           \* open's local `host` while open runs: the result of
                  \* find_host, or "None"
  elapsed,        \* seconds since the current polling loop took its start time
                  \* (0 outside a loop; a loop that timed out leaves its time)
  disk_status,    \* status of the disk object returned by the last
                  \* disk_service.get(), or "NotFoundError" when it raised that
  transfer_phase, \* open's local `transfer` while open runs: the phase of
                  \* the transfer object returned by the last get()
  disk,           \* the remote disk object: "absent", "created" or "removed"
  connection,     \* sdk.Connection: "none", "open" or "closed"
  diskid_file,    \* what has been written to params['diskid_file']
  calls,          \* how often each service method and OPTIONS has been called
  sent,           \* the HTTP requests the most recent call has sent
  lastCall,       \* the most recent call of the caller and how it ended
  failedOps,      \* the operations that have received an unexpected status
  disk_size,      \* params['disk_size']
  probe,          \* the answer to the OPTIONS request of open, while open is
                  \* the most recent call
  args,           \* <<offset, count>> of the most recent data operation,
                  \* <<key>> of the most recent config
  content,        \* the data on the remote disk and on a reference disk
  steps,          \* the steps close has begun, in order
  transfer_loop,  \* the polls and the sleeps open has made in its transfer
                  \* loop, while open is between that loop and its return
  status,         \* the status of the answer to the last request of the
                  \* most recent call, 0 if it sent none
  params,         \* the global params: whether it is loaded, and its keys
  other,          \* the handle a second open returned, while the calls are
                  \* made on h; NoHandle where there is no second open
  createvm,       \* a run of rhv-upload-createvm.py: where it stands, the
                  \* OVF document it holds, what it passed to vms_service.add
  deletedisks     \* a run of rhv-upload-deletedisks.py: where it stands, the
                  \* disks that exist, the removals it has requested

\* the variables of the nbdkit plugin
plugin == <<pc, rhv_direct, h, host, elapsed, disk_status, transfer_phase,
            disk, connection, diskid_file, calls, sent, lastCall, failedOps,
            disk_size, probe, args, content, steps, transfer_loop, status,
            params, other>>

vars == <<plugin, createvm, deletedisks>>

\* no OPTIONS answer at hand
NoProbe ==
  [status |-> 0, features |-> {}, unix_socket |-> FALSE, unix_error |-> FALSE]

\* the data of a disk as the set of the offsets holding a non-zero byte:
\* remote is the disk behind the imageio server, reference a disk that
\* every pwrite and zero of the caller reached.  A new disk reads as
\* zeroes.  The data is followed only where tracked is set, and no longer
\* once a request got an unexpected status.
NoContent(tracked) ==
  [tracked |-> tracked, remote |-> {}, reference |-> {}]

NoHandle ==
  [can_flush |-> FALSE, can_trim |-> FALSE, can_zero |-> FALSE,
   failed |-> FALSE, highestwrite |-> 0, http |-> "none", needs_auth |-> FALSE]

NoCalls == [remove |-> 0, finalize |-> 0, pause |-> 0, conn_close |-> 0,
            http_close |-> 0, options |-> 0]

\* params = None, and params after json.load of a document with these keys
NoParams == [loaded |-> FALSE, keys |-> {}]
Loaded(file) == [loaded |-> TRUE, keys |-> file]

\* neither script has been started
NoCreateVm ==
  [pc |-> "none", ovf_file |-> <<>>, ovf |-> <<>>, sds |-> <<>>,
   sd_uuid |-> "", data |-> <<>>, exc |-> "none"]
NoDeleteDisks ==
  [pc |-> "none", disk_uuids |-> <<>>, missing |-> {}, existing |-> {},
   i |-> 1, requested |-> <<>>, removed |-> {}, exc |-> "none"]

\* how a call ended: exc = "none" when it returned, else the exception raised
Call(op, exc, failedBefore) ==
  [op |-> op, exc |-> exc, failedBefore |-> failedBefore]

\* the plugin after nbdkit has loaded it: params = None, no handle
InitPlugin ==
  /\ pc = "load"
  /\ rhv_direct \in BOOLEAN
  /\ h = NoHandle
  /\ host = "None"
  /\ elapsed = 0
  /\ disk_status = "none"
  /\ transfer_phase = "none"
  /\ disk = "absent"
  /\ connection = "none"
  /\ diskid_file = <<>>
  /\ calls = NoCalls
  /\ sent = <<>>
  /\ lastCall = Call("none", "none", FALSE)
  /\ failedOps = {}
  /\ disk_size = DiskSize
  /\ probe = NoProbe
  /\ args = <<>>
  /\ content = NoContent(FALSE)
  /\ steps = <<>>
  /\ transfer_loop = [polls |-> 0, sleeps |-> 0]
  /\ status = 0
  /\ params = NoParams
  /\ other = NoHandle

\* the plugin loaded, neither script started
Init ==
  /\ InitPlugin
  /\ createvm = NoCreateVm
  /\ deletedisks = NoDeleteDisks

(***************************************************************************)
(* config and config_complete                                              *)
(***************************************************************************)
\* the keys nbdkit may pass to config
ConfigKeys == {"params", "verbose"}

\* the keys of params that open reads
ParamKeys ==
  {"output_conn", "output_password", "rhv_cafile", "insecure", "disk_format",
   "disk_name", "disk_size", "output_storage", "rhv_direct"}

\* the parameter files of the model: the keys of the JSON document, which
\* has all the keys or lacks one of them
ParamFiles == {ParamKeys} \cup {ParamKeys \ {k} : k \in ParamKeys}

\* a config that loads the file whatever the key is
ConfigLoads_AnyKey(key) == TRUE

\* the one key config accepts: if key == "params"
ConfigLoads(key) == key = "params"

\* config(key, value): load the JSON document named by value into the
\* global params, or raise for an unknown key
config ==
  /\ pc = "load"
  /\ \E key \in ConfigKeys, file \in ParamFiles :
       /\ args' = <<key>>
       /\ IF ConfigLoads(key)
            THEN /\ params' = Loaded(file)
                 /\ pc' = "load"
                 /\ lastCall' = Call("config", "none", FALSE)
            ELSE /\ pc' = "config_failed"
                 /\ lastCall' =
                      Call("config", "RuntimeError: unknown configuration key",
                           FALSE)
                 /\ UNCHANGED params
  /\ UNCHANGED <<rhv_direct, h, host, elapsed, disk_status, transfer_phase,
                 disk, connection, diskid_file, calls, sent, failedOps,
                 disk_size, probe, content, steps, transfer_loop, status,
                 other, createvm, deletedisks>>

\* config_complete: raise if params was never loaded
config_complete ==
  /\ pc = "load"
  /\ IF ~params.loaded
       THEN /\ pc' = "config_failed"
            /\ lastCall' =
                 Call("config_complete",
                      "RuntimeError: missing configuration parameters", FALSE)
       ELSE /\ pc' = "start"
            /\ lastCall' = Call("config_complete", "none", FALSE)
  /\ args' = <<>>
  /\ UNCHANGED <<rhv_direct, h, host, elapsed, disk_status, transfer_phase,
                 disk, connection, diskid_file, calls, sent, failedOps,
                 disk_size, probe, content, steps, transfer_loop, status,
                 params, other, createvm, deletedisks>>

(***************************************************************************)
(* open                                                                    *)
(***************************************************************************)
\* the keys open reads to make the connection: output_conn,
\* output_password, rhv_cafile, insecure
ConnectionKeys == {"output_conn", "output_password", "rhv_cafile", "insecure"}

\* the keys open reads before it calls disks_service.add, the arguments of
\* the call included
DiskKeys ==
  ConnectionKeys \cup {"disk_format", "disk_name", "disk_size",
                       "output_storage"}

\* open, up to the first poll of the new disk: connect, disks_service.add
OpenCreateDisk ==
  /\ pc = "start"
  /\ connection' = IF ConnectionKeys \subseteq params.keys THEN "open" ELSE "none"
  /\ IF DiskKeys \subseteq params.keys
       THEN /\ pc' = "open_disk_poll"
            /\ disk' = "created"
            /\ lastCall' = Call("open", "running", FALSE)
       ELSE /\ pc' = "open_failed"
            /\ lastCall' = Call("open", "KeyError", FALSE)
            /\ UNCHANGED disk
  /\ elapsed' = 0
  /\ UNCHANGED <<rhv_direct, h, host, disk_status, transfer_phase,
                 diskid_file, calls, sent, failedOps>>
  /\ UNCHANGED <<disk_size, probe, args, content, steps>>
  /\ UNCHANGED <<transfer_loop, status, params, other, createvm, deletedisks>>

\* a deadline test made only while the disk is LOCKED
DiskPollTimedOut_OnlyLocked(st, now) == st = "LOCKED" /\ now > timeout

\* the deadline test of the disk loop: time.time() > endt, made after any
\* status other than OK
DiskPollTimedOut(st, now) == now > timeout

\* the test that leaves the disk loop: disk.status == types.DiskStatus.OK
DiskUnlocked(st) == st = "OK"

\* one iteration of the loop waiting for the disk to become unlocked:
\* sleep, get, leave on OK, raise after the deadline
OpenDiskPoll ==
  /\ pc = "open_disk_poll"
  /\ \E d \in 1..SleepMax, st \in DiskStatuses :
       LET now == Min(elapsed + d, ClockCap) IN
       /\ disk_status' = st
       /\ IF DiskUnlocked(st)
            THEN /\ pc' = "open_add_transfer"
                 /\ elapsed' = 0
                 /\ UNCHANGED lastCall
            ELSE IF DiskPollTimedOut(st, now)
              THEN /\ pc' = "open_failed"
                   /\ elapsed' = now
                   /\ lastCall' = Call("open", "RuntimeError: disk timeout", FALSE)
              ELSE /\ pc' = pc
                   /\ elapsed' = now
                   /\ UNCHANGED lastCall
  /\ UNCHANGED <<rhv_direct, h, host, transfer_phase, disk, connection,
                 diskid_file, calls, sent, failedOps>>
  /\ UNCHANGED <<disk_size, probe, args, content, steps>>
  /\ UNCHANGED <<transfer_loop, status, params, other, createvm, deletedisks>>

\* find_host: the host object of this machine, or None when it is not an
\* oVirt host, has no datacenter or no matching running host
find_host == {"None", "host"}

\* find_host (only if rhv_direct) and transfers_service.add
OpenAddTransfer ==
  /\ pc = "open_add_transfer"
  /\ IF "rhv_direct" \in params.keys
       THEN /\ \E hst \in (IF rhv_direct THEN find_host ELSE {"None"}) :
                 host' = hst
            /\ pc' = "open_transfer_poll"
            /\ UNCHANGED lastCall
       ELSE /\ pc' = "open_failed"
            /\ lastCall' = Call("open", "KeyError", FALSE)
            /\ UNCHANGED host
  /\ elapsed' = 0
  /\ UNCHANGED <<rhv_direct, h, disk_status, transfer_phase, disk, connection,
                 diskid_file, calls, sent, failedOps>>
  /\ UNCHANGED <<disk_size, probe, args, content, steps>>
  /\ UNCHANGED <<transfer_loop, status, params, other, createvm, deletedisks>>

\* the deadline test of the transfer loop: time.time() > endt, made while
\* the phase is still INITIALIZING
TransferPollTimedOut(now) == now > timeout

\* a transfer loop that is left on any phase but CANCELLED
TransferReady_NotCancelled(ph) == ph # "CANCELLED"

\* the test that leaves the transfer loop:
\* transfer.phase != types.ImageTransferPhase.INITIALIZING
TransferReady(ph) == ph # "INITIALIZING"

\* a count one higher; MaxPolls + 1 stands for every count above MaxPolls
Counted(n) == Min(n + 1, MaxPolls + 1)

\* a transfer loop that sleeps in every iteration, as the disk loop does
TransferLoopSleeps_Always(ph, now) == TRUE

\* whether an iteration of the transfer loop reaches its time.sleep(1): it
\* neither left the loop nor raised
TransferLoopSleeps(ph, now) == ~TransferReady(ph) /\ ~TransferPollTimedOut(now)

\* one iteration of the loop waiting for the transfer to leave INITIALIZING:
\* get, leave on any other phase, raise after the deadline, sleep
OpenTransferPoll ==
  /\ pc = "open_transfer_poll"
  /\ \E d \in 1..SleepMax, ph \in ImageTransferPhases :
       /\ transfer_phase' = ph
       /\ transfer_loop' =
            [polls |-> Counted(transfer_loop.polls),
             sleeps |-> IF TransferLoopSleeps(ph, elapsed)
                          THEN Counted(transfer_loop.sleeps)
                          ELSE transfer_loop.sleeps]
       /\ IF TransferReady(ph)
            THEN /\ pc' = "open_connect"
                 /\ elapsed' = 0
                 /\ UNCHANGED lastCall
            ELSE IF TransferPollTimedOut(elapsed)
              THEN /\ pc' = "open_failed"
                   /\ UNCHANGED elapsed
                   /\ lastCall' = Call("open", "RuntimeError: transfer timeout", FALSE)
              ELSE /\ pc' = pc
                   /\ elapsed' = Min(elapsed + d, ClockCap + SleepMax)
                   /\ UNCHANGED lastCall
  /\ UNCHANGED <<rhv_direct, h, host, disk_status, disk, connection,
                 diskid_file, calls, sent, failedOps>>
  /\ UNCHANGED <<disk_size, probe, args, content, steps>>
  /\ UNCHANGED <<status, params, other, createvm, deletedisks>>

\* an HTTP request on the data channel, as the imageio server sees it:
\* method, query string of the path, whether it carries the Authorization
\* header, the op of a PATCH body, the byte range addressed (Range,
\* Content-Range or the PATCH body's offset/size), and the lengths of the
\* successive http.send calls of its body; flush is the 'flush' member of
\* a PATCH body, "absent" where there is none
Request(method, query, auth, op, offset, size, sends) ==
  [method |-> method, query |-> query, auth |-> auth, op |-> op,
   offset |-> offset, size |-> size, sends |-> sends, flush |-> "absent"]

\* http.request("OPTIONS", destination_url.path)
OptionsRequest == Request("OPTIONS", "", FALSE, "", 0, 0, <<>>)

\* a negotiation that asks for authentication from every legacy server
Negotiate_LegacyAuth(direct, st, F, unixAdvertised, hst, unixFails) ==
  LET modern == (st = 200)
      unix_socket == modern /\ unixAdvertised
  IN [can_flush |-> modern /\ "flush" \in F,
      can_trim |-> modern /\ "trim" \in F,
      can_zero |-> modern /\ "zero" \in F,
      failed |-> FALSE,
      highestwrite |-> 0,
      http |-> IF hst # "None" /\ unix_socket /\ ~unixFails
                 THEN "unix" ELSE "net",
      needs_auth |-> ~modern]

\* a negotiation that does not clear needs_auth on a 200 answer
Negotiate_AuthKept(direct, st, F, unixAdvertised, hst, unixFails) ==
  LET modern == (st = 200)
      unix_socket == modern /\ unixAdvertised
  IN [can_flush |-> modern /\ "flush" \in F,
      can_trim |-> modern /\ "trim" \in F,
      can_zero |-> modern /\ "zero" \in F,
      failed |-> FALSE,
      highestwrite |-> 0,
      http |-> IF hst # "None" /\ unix_socket /\ ~unixFails
                 THEN "unix" ELSE "net",
      needs_auth |-> ~direct]

\* an open that reconnects to any advertised unix_socket, whatever host
\* it runs on
Negotiate_UnixAnyHost(direct, st, F, unixAdvertised, hst, unixFails) ==
  LET modern == (st = 200)
      unix_socket == modern /\ unixAdvertised
  IN [can_flush |-> modern /\ "flush" \in F,
      can_trim |-> modern /\ "trim" \in F,
      can_zero |-> modern /\ "zero" \in F,
      failed |-> FALSE,
      highestwrite |-> 0,
      http |-> IF unix_socket /\ ~unixFails THEN "unix" ELSE "net",
      needs_auth |-> IF modern THEN FALSE ELSE ~direct]

\* the feature negotiation of open: the handle fields decided by the answer
\* to the OPTIONS probe (status st, advertised features F, and whether a
\* unix_socket is advertised), and the choice of the data channel
\* (hst: result of find_host, unixFails: UnixHTTPConnection() raises)
Negotiate(direct, st, F, unixAdvertised, hst, unixFails) ==
  LET modern == (st = 200)
      unix_socket == modern /\ unixAdvertised
  IN [can_flush |-> modern /\ "flush" \in F,
      can_trim |-> modern /\ "trim" \in F,
      can_zero |-> modern /\ "zero" \in F,
      failed |-> FALSE,
      highestwrite |-> 0,
      http |-> IF hst # "None" /\ unix_socket /\ ~unixFails
                 THEN "unix" ELSE "net",
      needs_auth |-> IF modern THEN FALSE ELSE ~direct]

\* the answer to the OPTIONS request as open reads it: the body is parsed
\* only when the status is 200
OptionsAnswer(st, F, unixAdvertised) ==
  [status |-> st,
   features |-> IF st = 200 THEN F ELSE {},
   unix_socket |-> st = 200 /\ unixAdvertised,
   unix_error |-> FALSE]

\* whether open reaches UnixHTTPConnection(unix_socket):
\* host is not None and unix_socket is not None
UnixTried(hst, answer) == hst # "None" /\ answer.unix_socket

\* the statuses of the OPTIONS answer open accepts
OptionsAccepted(st) == st = 200 \/ st = 405 \/ st = 204

\* open raises: no handle is returned, close will never be called
OpenRaise(exc) ==
  /\ pc' = "open_failed"
  /\ lastCall' = Call("open", exc, FALSE)
  /\ UNCHANGED h

\* the rest of open: choose the URL, connect, probe with OPTIONS, build the
\* handle
OpenConnect ==
  /\ pc = "open_connect"
  /\ \E url \in Urls, st \in OptionsStatuses, F \in SUBSET Features,
        unixAdvertised \in BOOLEAN, unixFails \in BOOLEAN :
       IF rhv_direct /\ url = "None"
         THEN /\ OpenRaise("RuntimeError: direct upload not supported")
              /\ UNCHANGED <<calls, sent, probe>>
         ELSE IF url \notin {"https", "http"}
           THEN /\ OpenRaise("RuntimeError: unknown URL scheme")
                /\ UNCHANGED <<calls, sent, probe>>
           ELSE /\ calls' = [calls EXCEPT !.options = @ + 1]
                /\ sent' = <<OptionsRequest>>
                /\ probe' =
                     LET answer == OptionsAnswer(st, F, unixAdvertised) IN
                     [answer EXCEPT !.unix_error =
                        OptionsAccepted(st) /\ UnixTried(host, answer)
                          /\ unixFails]
                /\ IF OptionsAccepted(st)
                     THEN /\ h' = Negotiate(rhv_direct, st, F, unixAdvertised,
                                            host, unixFails)
                          /\ pc' = "ready"
                          /\ lastCall' = Call("open", "none", FALSE)
                     ELSE OpenRaise("RuntimeError: OPTIONS")
  /\ host' = "None"
  /\ transfer_phase' = "none"
  /\ UNCHANGED <<rhv_direct, elapsed, disk_status, disk, connection,
                 diskid_file, failedOps>>
  /\ UNCHANGED <<disk_size, args, content, steps>>
  /\ transfer_loop' = [polls |-> 0, sleeps |-> 0]
  /\ status' = probe'.status
  /\ UNCHANGED <<params, other, createvm, deletedisks>>

(***************************************************************************)
(* The data operations                                                     *)
(***************************************************************************)
\* the operations of the data plane
DataOps == {"pread", "pwrite", "zero", "trim", "flush"}

\* the byte ranges the caller addresses: within the disk, never empty
Ranges == {r \in (0..DiskSize-1) \X (1..DiskSize) : r[1] + r[2] <= DiskSize}

\* a disk too large to address byte by byte: 1 GiB
LargeDisk == 1073741824

\* the byte ranges the caller addresses on a large disk: a 4 KiB block at
\* the start, one buffer and one byte more than a buffer after it, and
\* 1,000,000 bytes from the start
LargeRanges ==
  {<<0, 4096>>, <<4096, ChunkSize>>, <<4096, ChunkSize + 1>>, <<0, 1000000>>}

\* the byte ranges of the calls nbdkit makes: within get_size(h)
CallerRanges == IF disk_size = DiskSize THEN Ranges ELSE LargeRanges

\* the statuses the server may answer the next request with
Responses(expected) ==
  IF calls.pause < MaxFail THEN HttpStatuses ELSE {expected}

\* request_failed without setting the failed flag
request_failed_NoFlag(hh, pauseRaises) ==
  [h |-> hh,
   pause |-> 1,
   unexpected |-> TRUE,
   exc |-> IF pauseRaises THEN "sdk.Error: pause"
           ELSE "RuntimeError: request failed"]

\* request_failed without pausing the transfer
request_failed_NoPause(hh, pauseRaises) ==
  [h |-> [hh EXCEPT !.failed = TRUE],
   pause |-> 0,
   unexpected |-> TRUE,
   exc |-> "RuntimeError: request failed"]

\* a request_failed that also gives up the features of the server
request_failed_DropsFeatures(hh, pauseRaises) ==
  [h |-> [hh EXCEPT !.failed = TRUE, !.can_flush = FALSE, !.can_trim = FALSE,
                    !.can_zero = FALSE],
   pause |-> 1,
   unexpected |-> TRUE,
   exc |-> IF pauseRaises THEN "sdk.Error: pause"
           ELSE "RuntimeError: request failed"]

\* request_failed: set the failed flag, pause the transfer, raise.  When
\* transfer_service.pause() raises, that exception is the one that leaves.
request_failed(hh, pauseRaises) ==
  [h |-> [hh EXCEPT !.failed = TRUE],
   pause |-> 1,
   unexpected |-> TRUE,
   exc |-> IF pauseRaises THEN "sdk.Error: pause"
           ELSE "RuntimeError: request failed"]

\* a request got the expected status: nothing else happens
request_ok(hh) ==
  [h |-> hh, pause |-> 0, unexpected |-> FALSE, exc |-> "none"]

\* an outcome together with the status of the answer that led to it;
\* status 0 where no request was sent
Answered(out, st) ==
  [h |-> out.h, pause |-> out.pause, unexpected |-> out.unexpected,
   exc |-> out.exc, status |-> st]

\* a plugin that expects 200 of every request
ExpectedStatus_Always200(op) == 200

\* the only status each data operation accepts: 206 Partial Content for
\* pread, 200 for pwrite, zero, trim and flush
ExpectedStatus(op) == IF op = "pread" THEN 206 ELSE 200

\* the possible outcomes of a request answered with status st where
\* `expected` is the only status the operation accepts
Outcome(hh, st, expected) ==
  IF st # expected
    THEN {Answered(request_failed(hh, pauseRaises), st) :
            pauseRaises \in BOOLEAN}
    ELSE {Answered(request_ok(hh), st)}

\* the possible outcomes of a request, over the statuses the server may answer
Outcomes(hh, expected) ==
  UNION {Outcome(hh, st, expected) : st \in Responses(expected)}

\* a data operation ends: the handle, the pause count, the requests sent and
\* the result seen by the caller
DataOpEnds(op, out, reqs) ==
  /\ pc' = "ready"
  /\ h' = out.h
  /\ calls' = [calls EXCEPT !.pause = @ + out.pause]
  /\ sent' = reqs
  /\ lastCall' = Call(op, out.exc, h.failed)
  /\ failedOps' = IF out.unexpected THEN failedOps \cup {op} ELSE failedOps
  /\ probe' = NoProbe
  /\ UNCHANGED <<rhv_direct, host, elapsed, disk_status, transfer_phase, disk,
                 connection, diskid_file, disk_size, steps, transfer_loop,
                 params,
                 other, createvm, deletedisks>>
  /\ status' = out.status

\* the offsets of the count bytes from offset on
Bytes(offset, count) == offset .. (offset + count - 1)

\* the data after pwrite(buf, offset) of count non-zero bytes: the PUT with
\* Content-Range offset..offset+count-1, if answered with 200, has stored
\* buf on the remote disk
Written(c, offset, count, out) ==
  IF c.tracked /\ ~out.unexpected
    THEN [c EXCEPT !.remote = @ \cup Bytes(offset, count),
                   !.reference = @ \cup Bytes(offset, count)]
    ELSE NoContent(FALSE)

\* the data after zero(count, offset): a request that was sent and answered
\* with 200 has zeroed the range on the remote disk; a zero call that
\* returned has zeroed it on the reference disk
Zeroed(c, offset, count, out, reqs) ==
  IF c.tracked /\ ~out.unexpected
    THEN [c EXCEPT !.remote = IF reqs # <<>> THEN @ \ Bytes(offset, count)
                              ELSE @,
                   !.reference = @ \ Bytes(offset, count)]
    ELSE NoContent(FALSE)

\* the data after a call that stores nothing: pread, trim, flush
Kept(c, out) == IF c.tracked /\ ~out.unexpected THEN c ELSE NoContent(FALSE)

\* requests that never carry the ticket
Authorization_Never(hh) == FALSE

\* whether a GET or PUT carries the header Authorization:
\* transfer.signed_ticket, added if h['needs_auth']
Authorization(hh) == hh.needs_auth

pread ==
  /\ pc = "ready"
  /\ \E r \in CallerRanges, out \in Outcomes(h, ExpectedStatus("pread")) :
       /\ DataOpEnds("pread", out,
                  <<Request("GET", "", Authorization(h), "", r[1], r[2],
                            <<>>)>>)
       /\ args' = r
       /\ content' = Kept(content, out)

pwrite ==
  /\ pc = "ready"
  /\ \E r \in CallerRanges :
       LET hw == [h EXCEPT !.highestwrite = Max(@, r[1] + r[2])] IN
       \E out \in Outcomes(hw, ExpectedStatus("pwrite")) :
       /\ DataOpEnds("pwrite", out,
                  <<Request("PUT", "flush=n", Authorization(h), "", r[1],
                            r[2], <<r[2]>>)>>)
       /\ args' = r
       /\ content' = Written(content, r[1], r[2], out)

\* the http.send calls of emulate_zero: whole buffers while more than a
\* buffer is left, then the rest
\* an emulation that passes the whole body to one http.send
ZeroSends_Whole(count) == <<count>>

RECURSIVE ZeroSends(_)
ZeroSends(count) ==
  IF count > ChunkSize
    THEN <<ChunkSize>> \o ZeroSends(count - ChunkSize)
    ELSE <<count>>

\* an emulation that also writes when the range ends at the highest write
MustEmulate_UpTo(hh, offset, count) == offset + count <= hh.highestwrite

\* emulate_zero writes only below the highest write seen
MustEmulate(hh, offset, count) == offset + count < hh.highestwrite

\* the 'flush' member of the JSON body of a PATCH: False for zero and trim,
\* none in {'op': "flush"}
PatchFlush(op) == IF op = "flush" THEN "absent" ELSE "False"

\* a PATCH request for op
Patch(op, offset, count) ==
  [Request("PATCH", "", FALSE, op, offset, count, <<>>)
     EXCEPT !.flush = PatchFlush(op)]

\* a zero that asks the server to trim where the caller allows it
ZeroOp_TrimIfAllowed(may_trim) == IF may_trim THEN "trim" ELSE "zero"

\* the op of the PATCH zero sends to a server with the zero feature
ZeroOp(may_trim) == "zero"

zero ==
  /\ pc = "ready"
  /\ \E r \in CallerRanges, may_trim \in BOOLEAN :
       LET reqs == IF h.can_zero
                     THEN <<Patch(ZeroOp(may_trim), r[1], r[2])>>
                     ELSE \* emulate_zero
                          IF MustEmulate(h, r[1], r[2])
                            THEN <<Request("PUT", "", Authorization(h), "",
                                           r[1], r[2], ZeroSends(r[2]))>>
                            ELSE <<>>
       IN \E out \in (IF reqs # <<>>
                         THEN Outcomes(h, ExpectedStatus("zero"))
                         ELSE {Answered(request_ok(h), 0)}) :
          /\ DataOpEnds("zero", out, reqs)
          /\ args' = r
          /\ content' = Zeroed(content, r[1], r[2], out, reqs)

trim ==
  /\ pc = "ready"
  /\ \E r \in CallerRanges, out \in Outcomes(h, ExpectedStatus("trim")) :
       /\ DataOpEnds("trim", out, <<Patch("trim", r[1], r[2])>>)
       /\ args' = r
       /\ content' = Kept(content, out)

flush ==
  /\ pc = "ready"
  /\ \E out \in Outcomes(h, ExpectedStatus("flush")) :
       /\ DataOpEnds("flush", out, <<Patch("flush", 0, 0)>>)
       /\ args' = <<>>
       /\ content' = Kept(content, out)

(***************************************************************************)
(* close                                                                   *)
(***************************************************************************)
\* a cleanup that asks twice for the removal
delete_disk_on_failure_Twice(c, removeRaises) ==
  [calls |-> [c EXCEPT !.remove = @ + 2],
   removed |-> ~removeRaises,
   exc |-> IF removeRaises THEN "sdk.Error: remove" ELSE "none"]

\* delete_disk_on_failure: disk_service.remove(), which may raise
delete_disk_on_failure(c, removeRaises) ==
  [calls |-> [c EXCEPT !.remove = @ + 1],
   removed |-> ~removeRaises,
   exc |-> IF removeRaises THEN "sdk.Error: remove" ELSE "none"]

\* the exception that leaves the except: branch of close, which calls
\* delete_disk_on_failure and then re-raises with a bare raise: an exception
\* raised by the removal leaves in place of the original one
ExceptRaises(original, removalExc) ==
  IF removalExc # "none" THEN removalExc ELSE original

\* the except: branch of close; the statement after the try block,
\* connection.close(), is not reached
CloseExcept(original, hh, c, reqs, removeRaises) ==
  LET del == delete_disk_on_failure(c, removeRaises) IN
  /\ pc' = "closed"
  /\ h' = hh
  /\ calls' = del.calls
  /\ disk' = IF del.removed THEN "removed" ELSE disk
  /\ sent' = reqs
  /\ lastCall' = Call("close", ExceptRaises(original, del.exc), h.failed)
  /\ UNCHANGED <<connection, diskid_file>>

\* a failed-handle path that ends by raising
FailedCloseRaises_Always(removalExc) ==
  IF removalExc = "none" THEN "RuntimeError: upload failed" ELSE removalExc

\* what leaves close on the path taken when the failed flag is set: the
\* exception of the removal if it raised; otherwise close returns ("none")
FailedCloseRaises(removalExc) == removalExc

\* close of a handle whose failed flag is set: remove the disk, close the
\* connection, return
CloseFailed ==
  /\ pc = "ready"
  /\ h.failed
  /\ \E removeRaises \in BOOLEAN :
       LET del == delete_disk_on_failure(calls, removeRaises) IN
       /\ pc' = "closed"
       /\ disk' = IF del.removed THEN "removed" ELSE disk
       /\ sent' = <<>>
       /\ lastCall' = Call("close", FailedCloseRaises(del.exc), h.failed)
       /\ IF del.exc # "none"
            THEN /\ calls' = del.calls
                 /\ steps' = <<"remove">>
                 /\ UNCHANGED connection
            ELSE /\ calls' = [del.calls EXCEPT !.conn_close = @ + 1]
                 /\ steps' = <<"remove", "connection.close">>
                 /\ connection' = "closed"
  /\ probe' = NoProbe
  /\ args' = <<>>
  /\ UNCHANGED <<rhv_direct, h, host, elapsed, disk_status, transfer_phase,
                 diskid_file, failedOps, disk_size, content>>
  /\ status' = 0
  /\ UNCHANGED <<transfer_loop, params, other, createvm, deletedisks>>

\* a close that sends the flush request to any server
CloseFlushes_Always(hh) == TRUE

\* whether close begins with a flush request: if h['can_flush']
CloseFlushes(hh) == hh.can_flush

\* close of a handle whose failed flag is clear, up to the first poll:
\* flush if can_flush, http.close(), transfer_service.finalize()
CloseBegin ==
  /\ pc = "ready"
  /\ ~h.failed
  /\ \E fl \in (IF CloseFlushes(h) THEN Outcomes(h, ExpectedStatus("flush"))
                ELSE {Answered(request_ok(h), 0)}),
        finalizeRaises \in BOOLEAN, removeRaises \in BOOLEAN :
       LET reqs == IF CloseFlushes(h) THEN <<Patch("flush", 0, 0)>> ELSE <<>>
           c1 == [calls EXCEPT !.pause = @ + fl.pause]
           c2 == [c1 EXCEPT !.http_close = @ + 1, !.finalize = @ + 1]
           flushed == IF CloseFlushes(h) THEN <<"flush">> ELSE <<>>
           finalized == flushed \o <<"http.close", "finalize">>
       IN /\ status' = fl.status
          /\ IF fl.exc # "none"
            THEN /\ CloseExcept(fl.exc, fl.h, c1, reqs, removeRaises)
                 /\ steps' = Append(flushed, "remove")
                 /\ failedOps' = failedOps \cup {"flush"}
                 /\ UNCHANGED elapsed
            ELSE IF finalizeRaises
              THEN /\ CloseExcept("sdk.Error: finalize", h, c2, reqs, removeRaises)
                   /\ steps' = Append(finalized, "remove")
                   /\ UNCHANGED <<elapsed, failedOps>>
              ELSE /\ pc' = "close_poll"
                   /\ elapsed' = 0
                   /\ calls' = c2
                   /\ sent' = reqs
                   /\ steps' = finalized
                   /\ lastCall' = Call("close", "running", h.failed)
                   /\ UNCHANGED <<h, disk, connection, diskid_file,
                                  failedOps>>
  /\ probe' = NoProbe
  /\ args' = <<>>
  /\ UNCHANGED <<rhv_direct, host, disk_status, transfer_phase, disk_size,
                 content>>
  /\ UNCHANGED <<transfer_loop, params, other, createvm, deletedisks>>

\* a finalize loop that is left on any status other than LOCKED
FinalizePollNext_LeaveUnlessLocked(st, now) ==
  IF st = "LOCKED"
    THEN IF now > timeout THEN "raise" ELSE "continue"
    ELSE "break"

\* what the finalize loop does with the status the poll returned at time now
FinalizePollNext(st, now) ==
  IF st = "LOCKED"
    THEN IF now > timeout THEN "raise" ELSE "continue"
    ELSE IF st = "OK" THEN "break" ELSE "continue"

\* fp.write(disk.id) on a file opened with 'w'
WriteDiskId(id) == <<id>>

\* one iteration of the loop of close waiting for the disk to be unlocked
\* (sleep, get, which may raise NotFoundError), and what follows the loop
ClosePoll ==
  /\ pc = "close_poll"
  /\ \E d \in 1..SleepMax, st \in DiskStatuses \cup {"NotFoundError"} :
       LET now == Min(elapsed + d, ClockCap)
           next == IF st = "NotFoundError" THEN "notfound"
                   ELSE FinalizePollNext(st, now)
           polled == IF steps[Len(steps)] = "poll" THEN steps
                     ELSE Append(steps, "poll")
       IN /\ disk_status' = st
          /\ CASE next = "continue" ->
                    /\ elapsed' = now
                    /\ steps' = polled
                    /\ UNCHANGED <<pc, h, disk, connection, diskid_file, calls,
                                   sent, lastCall>>
               [] next = "raise" ->
                    /\ elapsed' = now
                    /\ steps' = Append(polled, "remove")
                    /\ \E removeRaises \in BOOLEAN :
                       CloseExcept("RuntimeError: finalize timeout", h, calls,
                                   sent, removeRaises)
               [] next = "notfound" ->
                    /\ elapsed' = 0
                    /\ steps' = Append(polled, "remove")
                    /\ \E removeRaises \in BOOLEAN :
                       CloseExcept("RuntimeError: disk not found", h, calls,
                                   sent, removeRaises)
               [] next = "break" ->
                    /\ elapsed' = 0
                    /\ \E writeFails \in BOOLEAN :
                       IF writeFails
                         THEN /\ steps' = polled \o <<"write", "remove">>
                              /\ \E removeRaises \in BOOLEAN :
                                 CloseExcept("OSError: diskid_file", h, calls,
                                             sent, removeRaises)
                         ELSE /\ pc' = "closed"
                              /\ diskid_file' = WriteDiskId(DiskId)
                              /\ connection' = "closed"
                              /\ calls' = [calls EXCEPT !.conn_close = @ + 1]
                              /\ steps' = polled \o
                                          <<"write", "connection.close">>
                              /\ lastCall' = Call("close", "none", h.failed)
                              /\ UNCHANGED <<h, disk, sent>>
  /\ UNCHANGED <<rhv_direct, host, transfer_phase, failedOps, disk_size,
                 probe, args, content>>
  /\ UNCHANGED <<transfer_loop, status, params, other, createvm, deletedisks>>

Next ==
  \/ config
  \/ config_complete
  \/ OpenCreateDisk
  \/ OpenDiskPoll
  \/ OpenAddTransfer
  \/ OpenTransferPoll
  \/ OpenConnect
  \/ pread
  \/ pwrite
  \/ zero
  \/ trim
  \/ flush
  \/ CloseFailed
  \/ CloseBegin
  \/ ClosePoll

Spec == Init /\ [][Next]_vars

\* the states in which open returns a handle for an upload over the
\* network connection to a server that does not advertise the zero feature,
\* for a disk small enough to follow its data byte by byte and for a large
\* one
InitData ==
  /\ pc = "ready"
  /\ rhv_direct \in BOOLEAN
  /\ \E st \in {s \in OptionsStatuses : OptionsAccepted(s)},
        F \in SUBSET (Features \ {"zero"}) :
       /\ h = Negotiate(rhv_direct, st, F, FALSE, "None", FALSE)
       /\ probe = OptionsAnswer(st, F, FALSE)
  /\ host = "None"
  /\ elapsed = 0
  /\ disk_status = "OK"
  /\ transfer_phase = "none"
  /\ disk = "created"
  /\ connection = "open"
  /\ diskid_file = <<>>
  /\ calls = [NoCalls EXCEPT !.options = 1]
  /\ sent = <<OptionsRequest>>
  /\ lastCall = Call("open", "none", FALSE)
  /\ failedOps = {}
  /\ disk_size \in {DiskSize, LargeDisk}
  /\ args = <<>>
  /\ content = NoContent(disk_size = DiskSize)
  /\ steps = <<>>
  /\ transfer_loop = [polls |-> 0, sleeps |-> 0]
  /\ status = probe.status
  /\ params = Loaded(ParamKeys)
  /\ other = NoHandle
  /\ createvm = NoCreateVm
  /\ deletedisks = NoDeleteDisks

\* the calls nbdkit makes on an open handle before it closes it
NextData ==
  \/ pread
  \/ pwrite
  \/ zero
  \/ trim
  \/ flush

SpecData == InitData /\ [][NextData]_vars

(***************************************************************************)
(* two handles: nbdkit calls open once per client connection, and passes   *)
(* to every later call the handle which that open returned                 *)
(***************************************************************************)
\* a plugin that keeps the failed flag in a module global
Passed_GlobalFailed(o) == [o EXCEPT !.failed = @ \/ h.failed]

\* the handle a call on the second connection gets: the dict its open
\* returned, which no call on another handle has a reference to
Passed(o) == o

\* while both handles are open, the next call is made on the other one;
\* calls are serialized, so one call has ended before the next begins.
\* calls, failedOps and the variables describing the most recent call go on
\* over the calls on both handles; the disk and the connection of either
\* open handle are in the same state.
Switch ==
  /\ pc = "ready"
  /\ other # NoHandle
  /\ other' = h
  /\ h' = Passed(other)
  /\ UNCHANGED <<pc, rhv_direct, host, elapsed, disk_status, transfer_phase,
                 disk, connection, diskid_file, calls, sent, lastCall,
                 failedOps, disk_size, probe, args, content, steps,
                 transfer_loop, status, params, createvm, deletedisks>>

\* the states in which two opens have returned, both with the same params
\* and the same server, one that answers OPTIONS with 200 and advertises
\* every feature or none, for a large disk
InitTwo ==
  /\ pc = "ready"
  /\ rhv_direct \in BOOLEAN
  /\ \E st \in {200}, F \in {{}, Features} :
       /\ h = Negotiate(rhv_direct, st, F, FALSE, "None", FALSE)
       /\ probe = OptionsAnswer(st, F, FALSE)
  /\ other = h
  /\ host = "None"
  /\ elapsed = 0
  /\ disk_status = "OK"
  /\ transfer_phase = "none"
  /\ disk = "created"
  /\ connection = "open"
  /\ diskid_file = <<>>
  /\ calls = [NoCalls EXCEPT !.options = 2]
  /\ sent = <<OptionsRequest>>
  /\ lastCall = Call("open", "none", FALSE)
  /\ failedOps = {}
  /\ disk_size = LargeDisk
  /\ args = <<>>
  /\ content = NoContent(FALSE)
  /\ steps = <<>>
  /\ transfer_loop = [polls |-> 0, sleeps |-> 0]
  /\ status = probe.status
  /\ params = Loaded(ParamKeys)
  /\ createvm = NoCreateVm
  /\ deletedisks = NoDeleteDisks

\* the calls nbdkit makes on two open handles, in any order, until one of
\* them is closed; close is followed up to the loop in which it waits for
\* the disk of its handle
NextTwo ==
  \/ pread
  \/ pwrite
  \/ zero
  \/ trim
  \/ flush
  \/ CloseFailed
  \/ CloseBegin
  \/ Switch

SpecTwo == InitTwo /\ [][NextTwo]_vars

(***************************************************************************)
(* rhv-upload-createvm.py and rhv-upload-deletedisks.py: each is a script  *)
(* run once, from its first statement to its last                          *)
(***************************************************************************)
\* the sequences over S of length at most n
SeqUpTo(S, n) == UNION {[1..k -> S] : k \in 0..n}

\* the elements of a sequence
Range(q) == {q[i] : i \in DOMAIN q}

\* an OVF document as the sequence of its pieces: the placeholder and text
\* free of it
OvfPieces == {"@SD_UUID@", "<ovf:Envelope>"}

\* the id of the storage domain named by params['output_storage']
StorageDomainId == "4f1a2a5e"

\* str.replace(old, new): a copy of the string with every occurrence of old
\* replaced by new; the string itself is immutable
replace(str, old, new) ==
  [i \in DOMAIN str |-> IF str[i] = old THEN new ELSE str[i]]

\* a script that assigns the result: ovf = ovf.replace("@SD_UUID@", sd_uuid)
ReplaceStatement_Assigned(ovf, sd_uuid) == replace(ovf, "@SD_UUID@", sd_uuid)

\* ovf after the expression statement ovf.replace("@SD_UUID@", sd_uuid),
\* whose value is dropped
ReplaceStatement(ovf, sd_uuid) == ovf

\* sd = sds_service.list(search=...)[0]; sd_uuid = sd.id
CreateVmStorageDomain ==
  /\ createvm.pc = "storage_domain"
  /\ createvm' =
       IF createvm.sds = <<>>
         THEN [createvm EXCEPT !.pc = "failed", !.exc = "IndexError"]
         ELSE [createvm EXCEPT !.pc = "replace", !.sd_uuid = createvm.sds[1]]
  /\ UNCHANGED <<plugin, deletedisks>>

\* ovf.replace("@SD_UUID@", sd_uuid)
CreateVmReplace ==
  /\ createvm.pc = "replace"
  /\ createvm' =
       [createvm EXCEPT !.pc = "add",
                        !.ovf = ReplaceStatement(@, createvm.sd_uuid)]
  /\ UNCHANGED <<plugin, deletedisks>>

\* vms_service.add(types.Vm(... data = ovf ...)), which may raise
CreateVmAdd ==
  /\ createvm.pc = "add"
  /\ \E addRaises \in BOOLEAN :
       createvm' =
         IF addRaises
           THEN [createvm EXCEPT !.pc = "failed", !.exc = "sdk.Error",
                                 !.data = createvm.ovf]
           ELSE [createvm EXCEPT !.pc = "done", !.data = createvm.ovf]
  /\ UNCHANGED <<plugin, deletedisks>>

\* the uuids of the disks
DiskUuids == {"disk1", "disk2"}

\* what disk_service.remove() does for uuid: NotFoundError if there is no
\* such disk, else the disk is removed or the service raises another error
RemoveOutcomes(uuid, existing) ==
  IF uuid \in existing THEN {"removed", "sdk.Error"} ELSE {"NotFoundError"}

\* a loop without the try statement
Passes_Nothing(exc) == FALSE

\* the exceptions the loop body passes over: except sdk.NotFoundError: pass
Passes(exc) == exc = "NotFoundError"

\* one iteration of for uuid in params['disk_uuids'], or the end of the loop
DeleteDisksNext ==
  /\ deletedisks.pc = "loop"
  /\ IF deletedisks.i > Len(deletedisks.disk_uuids)
       THEN deletedisks' = [deletedisks EXCEPT !.pc = "done"]
       ELSE LET uuid == deletedisks.disk_uuids[deletedisks.i] IN
            \E out \in RemoveOutcomes(uuid, deletedisks.existing) :
              LET called == [deletedisks EXCEPT
                               !.requested = Append(@, uuid)]
              IN deletedisks' =
                   IF out = "removed"
                     THEN [called EXCEPT !.i = @ + 1,
                                         !.existing = @ \ {uuid},
                                         !.removed = @ \cup {uuid}]
                     ELSE IF Passes(out)
                       THEN [called EXCEPT !.i = @ + 1]
                       ELSE [called EXCEPT !.pc = "failed", !.exc = out]
  /\ UNCHANGED <<plugin, createvm>>

\* the states in which the two scripts start: createvm with its OVF file
\* read and the storage domains the search will return, deletedisks with
\* its list of uuids, some of whose disks no longer exist
InitScripts ==
  /\ InitPlugin
  /\ \E doc \in SeqUpTo(OvfPieces, MaxTokens),
        sds \in {<<>>, <<StorageDomainId>>} :
       createvm = [NoCreateVm EXCEPT !.pc = "storage_domain",
                                     !.ovf_file = doc, !.ovf = doc,
                                     !.sds = sds]
  /\ \E uuids \in SeqUpTo(DiskUuids, MaxDisks) :
       \E missing \in SUBSET Range(uuids) :
         deletedisks = [NoDeleteDisks EXCEPT !.pc = "loop",
                                            !.disk_uuids = uuids,
                                            !.missing = missing,
                                            !.existing = Range(uuids) \ missing]

NextScripts ==
  \/ CreateVmStorageDomain
  \/ CreateVmReplace
  \/ CreateVmAdd
  \/ DeleteDisksNext

SpecScripts == InitScripts /\ [][NextScripts]_vars

TypeOK ==
  /\ createvm.pc \in {"none", "storage_domain", "replace", "add", "done",
                      "failed"}
  /\ createvm.ovf \in SeqUpTo(OvfPieces \cup {StorageDomainId}, MaxTokens)
  /\ deletedisks.pc \in {"none", "loop", "done", "failed"}
  /\ deletedisks.i \in 1..(MaxDisks + 1)
  /\ deletedisks.existing \subseteq DiskUuids
  /\ pc \in {"load", "config_failed", "start", "open_disk_poll",
             "open_add_transfer", "open_transfer_poll", "open_connect",
             "open_failed", "ready", "close_poll", "closed"}
  /\ params \in {NoParams} \cup {Loaded(file) : file \in ParamFiles}
  /\ elapsed \in 0..(ClockCap + SleepMax)
  /\ h.highestwrite \in 0..disk_size
  /\ calls.pause \in 0..MaxFail
  /\ disk_size \in {DiskSize, LargeDisk}
  /\ probe.status \in OptionsStatuses \cup {0}
  /\ status \in HttpStatuses \cup OptionsStatuses \cup {0}
  /\ transfer_loop.polls \in 0..(MaxPolls + 1)
  /\ transfer_loop.sleeps \in 0..(MaxPolls + 1)
  /\ args \in CallerRanges \cup {<<>>} \cup {<<k>> : k \in ConfigKeys}
  /\ content.remote \subseteq Bytes(0, DiskSize)
  /\ content.reference \subseteq content.remote
  /\ steps \in Seq({"flush", "http.close", "finalize", "poll", "write",
                    "remove", "connection.close"})

(***************************************************************************)
(* Properties                                                              *)
(***************************************************************************)

\* C1: when open succeeded, every data operation got its expected status and
\* close returned without raising, the last disk status close polled is OK
\* and the diskid file holds exactly the disk's id
C1_SuccessfulClose ==
  (pc = "closed" /\ lastCall.exc = "none" /\ ~h.failed /\ failedOps = {})
    => (disk_status = "OK" /\ diskid_file = <<DiskId>>)

C1_Witness ==
  /\ pc = "closed"
  /\ lastCall.exc = "none"
  /\ ~h.failed
  /\ failedOps = {}
  /\ h.highestwrite = DiskSize
  /\ diskid_file = <<DiskId>>

\* C2: after a pwrite, zero or trim got a non-success status, the following
\* close calls disk_service.remove(), never calls finalize and never writes
\* the diskid file
C2_FailedCloseCleansUp ==
  (pc = "closed" /\ failedOps \cap {"pwrite", "zero", "trim"} # {})
    => (calls.remove = 1 /\ calls.finalize = 0 /\ diskid_file = <<>>)

C2_Witness ==
  /\ pc = "closed"
  /\ "pwrite" \in failedOps
  /\ lastCall.op = "close"
  /\ calls.remove = 1
  /\ disk = "removed"

\* C3 as stated: after a pwrite, zero or trim got a non-success status, the
\* following close raises
C3_FailedCloseRaises ==
  (pc = "closed" /\ failedOps \cap {"pwrite", "zero", "trim"} # {})
    => lastCall.exc # "none"

\* C3 as amended: after a pwrite, zero or trim got a non-success status, the
\* following close returns normally, with the disk removed and the connection
\* closed, whenever disk_service.remove() returns; it raises only the
\* exception of a failing disk_service.remove()
C3_FailedCloseReturns ==
  (pc = "closed" /\ failedOps \cap {"pwrite", "zero", "trim"} # {})
    => \/ lastCall.exc = "none" /\ disk = "removed" /\ connection = "closed"
       \/ lastCall.exc = "sdk.Error: remove" /\ disk = "created"

C3_Witness ==
  /\ pc = "closed"
  /\ "trim" \in failedOps
  /\ lastCall = Call("close", "none", TRUE)
  /\ disk = "removed"

\* C4 as stated: when a data operation raises to the caller because of an
\* unexpected status, disk_service.remove() has already been called
C4_RemovedBeforeRaise ==
  ( /\ pc = "ready"
    /\ lastCall.op \in DataOps
    /\ lastCall.exc = "RuntimeError: request failed" )
    => (calls.remove >= 1 /\ disk = "removed")

\* C4 as amended: when a data operation called by the pipeline raises because
\* of an unexpected status, the failed flag is set and the transfer has been
\* asked to pause, but disk_service.remove() has not been called yet; it is
\* called by the close that follows
C4_RemovedByClose ==
  /\ (pc = "ready" /\ lastCall.op \in DataOps /\ lastCall.exc # "none")
       => (h.failed /\ calls.pause >= 1 /\ calls.remove = 0 /\ disk = "created")
  /\ (pc = "closed" /\ lastCall.failedBefore) => calls.remove = 1

C4_Witness ==
  /\ pc = "ready"
  /\ lastCall.op = "pread"
  /\ lastCall.exc = "RuntimeError: request failed"
  /\ h.failed
  /\ disk = "created"

\* C5: once open has created the remote disk, an upload that fails at any
\* later step, failures inside open included, has disk_service.remove()
\* called before the adapter is done
C5_NoDiskLeft ==
  ( /\ pc \in {"open_failed", "closed"}
    /\ disk # "absent"
    /\ (lastCall.exc # "none" \/ h.failed) )
    => calls.remove >= 1

\* C6: once the failed flag is set, no later data operation sends an HTTP
\* request
C6_NoRequestOnceFailed ==
  (pc = "ready" /\ lastCall.op \in DataOps /\ lastCall.failedBefore)
    => sent = <<>>

\* C7: on a non-failed handle, when the first poll after finalize raises
\* NotFoundError, close returns normally, does not remove the disk and
\* writes the diskid file
C7_NotFoundIsSuccess ==
  [][ (pc = "close_poll" /\ elapsed = 0 /\ disk_status' = "NotFoundError")
        => /\ pc' = "closed"
           /\ lastCall'.exc = "none"
           /\ calls'.remove = 0
           /\ diskid_file' = <<DiskId>> ]_vars

\* C8: with time advancing by at least a second per poll, the finalize loop
\* of close does not go on polling once more than timeout seconds have
\* elapsed, whatever statuses the service returns
C8_FinalizeLoopBounded ==
  pc = "close_poll" => elapsed <= timeout

\* C9: with time advancing by at least a second per sleep, both loops of open
\* end: the clock grows with every iteration, neither loop goes on once more
\* than timeout seconds have elapsed, the disk loop is left on OK or by the
\* timeout error, the transfer loop on a phase other than INITIALIZING or by
\* the timeout error
C9_OpenLoopsEnd ==
  /\ [](pc = "open_disk_poll" => elapsed <= timeout)
  /\ [](pc = "open_transfer_poll" => elapsed <= timeout + SleepMax)
  /\ [][ (pc \in {"open_disk_poll", "open_transfer_poll"} /\ pc' = pc)
           => elapsed' > elapsed ]_vars
  /\ [][ pc = "open_disk_poll" /\ pc' # pc
           => \/ pc' = "open_add_transfer" /\ disk_status' = "OK"
              \/ /\ pc' = "open_failed"
                 /\ lastCall'.exc = "RuntimeError: disk timeout"
                 /\ elapsed' > timeout ]_vars
  /\ [][ pc = "open_transfer_poll" /\ pc' # pc
           => \/ pc' = "open_connect" /\ transfer_phase' # "INITIALIZING"
              \/ /\ pc' = "open_failed"
                 /\ lastCall'.exc = "RuntimeError: transfer timeout"
                 /\ elapsed' > timeout ]_vars

C9_Witness ==
  /\ pc = "open_failed"
  /\ lastCall.exc = "RuntimeError: transfer timeout"
  /\ disk_status = "OK"
  /\ elapsed > timeout

\* C10: an exception of disk_service.remove() never leaves close: on the
\* failed-handle path close still closes the connection and returns, and
\* when the normal close sequence raised, the original error is re-raised
C10_RemovalErrorSwallowed ==
  pc = "closed"
    => /\ lastCall.exc # "sdk.Error: remove"
       /\ lastCall.failedBefore
            => (lastCall.exc = "none" /\ connection = "closed")

\* C11: when a data operation got an unexpected status, whatever pause()
\* does, the failed flag is set and what reaches the caller is the
\* RuntimeError built from the message, the status and the reason, never the
\* error of pause()
C11_ClassifiedErrorPropagates ==
  (pc = "ready" /\ lastCall.op \in DataOps /\ lastCall.exc # "none")
    => (h.failed /\ lastCall.exc = "RuntimeError: request failed")

\* C17: when a step of the normal close sequence raised, close has called
\* disk_service.remove() exactly once and what leaves close is the exception
\* of that step, not one of the removal
C17_CloseReraisesOriginal ==
  (pc = "closed" /\ ~lastCall.failedBefore /\ lastCall.exc # "none")
    => (calls.remove = 1 /\ lastCall.exc # "sdk.Error: remove")

\* C19: every close has called connection.close() exactly once when it is
\* left, by return or by exception
C19_ConnectionClosedOnce ==
  pc = "closed" => (calls.conn_close = 1 /\ connection = "closed")

\* C20: in open, the image transfer is created only when the last poll of
\* the disk returned OK, and no request goes to the imageio server, the
\* OPTIONS probe included, before a poll of the transfer returned a phase
\* other than INITIALIZING
C20_OpenOrder ==
  /\ [][ (pc = "open_add_transfer" /\ pc' = "open_transfer_poll")
           => disk_status = "OK" ]_vars
  /\ [](pc \in {"start", "open_disk_poll", "open_add_transfer",
                "open_transfer_poll"}
          => (calls.options = 0 /\ sent = <<>>))
  /\ [][ (calls'.options # calls.options \/ (sent' # sent /\ lastCall'.op = "open"))
           => /\ pc = "open_connect"
              /\ transfer_phase \in ImageTransferPhases \ {"INITIALIZING"}
              /\ disk_status = "OK" ]_vars

C20_Witness ==
  /\ pc = "ready"
  /\ lastCall = Call("open", "none", FALSE)
  /\ calls.options = 1
  /\ sent = <<OptionsRequest>>
  /\ disk_status = "OK"

\* C18: on a handle whose failed flag is clear, the steps close has begun,
\* cleanup aside, are an initial part of: flush (only if can_flush),
\* http.close, finalize, polling, write of the diskid file; and the diskid
\* file is written only after all the steps before it were made and
\* succeeded, the last poll returning OK
C18_CloseOrder ==
  LET order == (IF h.can_flush THEN <<"flush">> ELSE <<>>)
                 \o <<"http.close", "finalize", "poll", "write">>
      begun == SelectSeq(steps,
                 LAMBDA x : x \notin {"remove", "connection.close"})
  IN /\ (pc \in {"close_poll", "closed"} /\ ~lastCall.failedBefore)
          => /\ Len(begun) <= Len(order)
             /\ begun = SubSeq(order, 1, Len(begun))
     /\ diskid_file # <<>>
          => /\ steps = order \o <<"connection.close">>
             /\ sent = (IF h.can_flush THEN <<Patch("flush", 0, 0)>> ELSE <<>>)
             /\ ~h.failed
             /\ calls.http_close = 1
             /\ calls.finalize = 1
             /\ disk_status = "OK"
             /\ lastCall = Call("close", "none", FALSE)

C18_Witness ==
  /\ pc = "closed"
  /\ h.can_flush
  /\ steps = <<"flush", "http.close", "finalize", "poll", "write",
               "connection.close">>
  /\ diskid_file = <<DiskId>>

\* C12 as stated: when the OPTIONS probe was answered with 405 or 204, the
\* handle open returns has can_flush, can_trim and can_zero false and
\* needs_auth true, whatever rhv_direct is
C12_LegacyNeedsAuth ==
  (pc = "ready" /\ lastCall.op = "open" /\ probe.status \in {405, 204})
    => /\ ~h.can_flush /\ ~h.can_trim /\ ~h.can_zero
       /\ h.needs_auth

\* C12 as amended: when the OPTIONS probe was answered with 405 or 204, the
\* handle open returns has can_flush, can_trim and can_zero false, and
\* needs_auth is true exactly when rhv_direct is false
C12_LegacyAuthUnlessDirect ==
  (pc = "ready" /\ lastCall.op = "open" /\ probe.status \in {405, 204})
    => /\ ~h.can_flush /\ ~h.can_trim /\ ~h.can_zero
       /\ h.needs_auth = ~rhv_direct

C12_Witness ==
  /\ pc = "ready"
  /\ lastCall.op = "open"
  /\ probe.status = 405
  /\ rhv_direct
  /\ ~h.needs_auth
  /\ ~h.can_zero

\* C13: when the OPTIONS probe was answered with 200 and the feature list F,
\* the handle open returns has can_flush, can_trim and can_zero true exactly
\* for the features in F, and needs_auth false, whatever rhv_direct is
C13_ModernFeatures ==
  (pc = "ready" /\ lastCall.op = "open" /\ probe.status = 200)
    => /\ h.can_flush = ("flush" \in probe.features)
       /\ h.can_trim = ("trim" \in probe.features)
       /\ h.can_zero = ("zero" \in probe.features)
       /\ ~h.needs_auth

C13_Witness ==
  /\ pc = "ready"
  /\ lastCall.op = "open"
  /\ probe.status = 200
  /\ probe.features = {"flush", "zero"}
  /\ ~rhv_direct
  /\ h.can_flush /\ ~h.can_trim /\ h.can_zero
  /\ ~h.needs_auth

\* the bytes sent by a sequence of http.send calls
RECURSIVE SumSeq(_)
SumSeq(q) == IF q = <<>> THEN 0 ELSE Head(q) + SumSeq(Tail(q))

C14_ZeroedLikeReference ==
  (content.tracked /\ ~h.can_zero /\ failedOps = {})
    => content.remote = content.reference

\* C16: on a handle with can_zero false, after a write of 4096 bytes at
\* offset 0 as the only write, zero(count = 1000000, offset = 0) writes
\* zeroes over the region in pieces of at most 128 KiB, 8 of them
C16_ScenarioEmulated ==
  ( /\ pc = "ready"
    /\ ~h.can_zero
    /\ h.highestwrite = 4096
    /\ failedOps = {}
    /\ lastCall.op = "zero"
    /\ args = <<0, 1000000>> )
    => /\ sent # <<>>
       /\ \A i \in DOMAIN sent :
            /\ sent[i].method = "PUT"
            /\ \A j \in DOMAIN sent[i].sends : sent[i].sends[j] <= ChunkSize
       /\ \/ Len(sent) = 8
          \/ Len(sent) = 1 /\ Len(sent[1].sends) = 8

\* C30: whenever open goes on from the transfer loop to the data plane and
\* returns a handle, the phase its last poll of the transfer returned is
\* TRANSFERRING
C30_OnlyTransferring ==
  [][ (pc = "open_connect" /\ pc' = "ready")
        => transfer_phase = "TRANSFERRING" ]_vars

\* C28: once open has returned the handle, no call changes its can_flush,
\* can_trim, can_zero or needs_auth, and the OPTIONS request of open is the
\* only one ever sent
C28_FeaturesFixed ==
  /\ [][ (pc \in {"ready", "close_poll"})
           => ( /\ h'.can_flush = h.can_flush
                /\ h'.can_trim = h.can_trim
                /\ h'.can_zero = h.can_zero
                /\ h'.needs_auth = h.needs_auth
                /\ calls'.options = calls.options
                /\ \A i \in DOMAIN sent' : sent'[i].method # "OPTIONS" ) ]_vars
  /\ [](pc \in {"ready", "close_poll", "closed"} => calls.options = 1)

C28_Witness ==
  /\ pc = "closed"
  /\ h.can_flush /\ h.can_trim /\ ~h.can_zero
  /\ h.failed
  /\ failedOps = {"zero"}
  /\ h.highestwrite = DiskSize
  /\ calls.options = 1

\* C25: the handle open returns has highestwrite 0; every pwrite call sets it
\* to the larger of its old value and offset+len(buf), so that it is the
\* maximum over the pwrite calls made so far and never decreases; pread,
\* zero, trim, flush and close leave it as it is
C25_HighestWrite ==
  /\ []((pc = "ready" /\ lastCall.op = "open") => h.highestwrite = 0)
  /\ [][ (pc = "ready" /\ pc' = "ready")
           => ( /\ h'.highestwrite >= h.highestwrite
                /\ IF lastCall'.op = "pwrite"
                     THEN /\ h'.highestwrite >= args'[1] + args'[2]
                          /\ h'.highestwrite
                               \in {h.highestwrite, args'[1] + args'[2]}
                     ELSE h'.highestwrite = h.highestwrite ) ]_vars
  /\ [][ (pc \in {"ready", "close_poll"} /\ pc' \in {"close_poll", "closed"})
           => h'.highestwrite = h.highestwrite ]_vars

C25_Witness ==
  /\ pc = "ready"
  /\ lastCall = Call("pwrite", "none", FALSE)
  /\ args = <<0, 1>>
  /\ h.highestwrite = DiskSize

\* C23: a PATCH with op flush is sent only on a handle whose can_flush is
\* true, by flush(h) as well as by close
C23_FlushOnlyIfCanFlush ==
  \A i \in DOMAIN sent : sent[i].op = "flush" => h.can_flush

\* C24: on a handle with can_zero true, every zero call sends exactly one
\* request, a PATCH with op zero, the offset and the size of the call and
\* flush false, whatever may_trim and highestwrite are
C24_NativeZero ==
  (pc = "ready" /\ lastCall.op = "zero" /\ h.can_zero)
    => /\ Len(sent) = 1
       /\ sent[1].method = "PATCH"
       /\ sent[1].op = "zero"
       /\ sent[1].offset = args[1]
       /\ sent[1].size = args[2]
       /\ sent[1].flush = "False"
       /\ sent[1].sends = <<>>

C24_Witness ==
  /\ pc = "ready"
  /\ lastCall = Call("zero", "none", FALSE)
  /\ h.can_zero
  /\ h.highestwrite = DiskSize
  /\ args = <<0, 1>>
  /\ sent = <<Patch("zero", 0, 1)>>

\* C21: while open is in its transfer loop every poll so far returned
\* INITIALIZING and was followed by one sleep; a poll that returns another
\* phase ends the loop without a further sleep and without error: after k
\* polls returning INITIALIZING and one returning another phase, open has
\* made k+1 polls and k sleeps (counts up to MaxPolls)
C21_PollsAndSleeps ==
  /\ []((pc = "open_transfer_poll" /\ transfer_loop.polls <= MaxPolls)
          => transfer_loop.sleeps = transfer_loop.polls)
  /\ [][ ( /\ pc = "open_transfer_poll"
           /\ transfer_loop.polls < MaxPolls
           /\ transfer_phase' \in ImageTransferPhases \ {"INITIALIZING"} )
           => ( /\ pc' = "open_connect"
                /\ transfer_loop'.polls = transfer_loop.polls + 1
                /\ transfer_loop'.sleeps = transfer_loop.polls
                /\ lastCall' = Call("open", "running", FALSE) ) ]_vars
  /\ [][ ( /\ pc = "open_transfer_poll"
           /\ transfer_loop.polls < MaxPolls
           /\ elapsed <= timeout
           /\ transfer_phase' = "INITIALIZING" )
           => ( /\ pc' = "open_transfer_poll"
                /\ transfer_loop'.polls = transfer_loop.polls + 1
                /\ transfer_loop'.sleeps = transfer_loop.sleeps + 1 ) ]_vars

C21_Witness ==
  /\ pc = "open_connect"
  /\ transfer_phase = "TRANSFERRING"
  /\ transfer_loop = [polls |-> 3, sleeps |-> 2]
  /\ lastCall = Call("open", "running", FALSE)

\* C22: a data operation that sent a request accepts one status only, 206
\* for pread and 200 for pwrite, zero, trim and flush: any other status sets
\* the failed flag, pauses the transfer once and raises; the expected status
\* leaves the failed flag as it was, pauses nothing and raises nothing
C22_ExpectedStatus ==
  [][ (pc = "ready" /\ pc' = "ready" /\ sent' # <<>>)
        => IF status' # (IF lastCall'.op = "pread" THEN 206 ELSE 200)
             THEN /\ h'.failed
                  /\ calls'.pause = calls.pause + 1
                  /\ lastCall'.exc # "none"
             ELSE /\ h'.failed = h.failed
                  /\ calls'.pause = calls.pause
                  /\ lastCall'.exc = "none" ]_vars

C22_Witness ==
  /\ pc = "ready"
  /\ lastCall = Call("pread", "RuntimeError: request failed", FALSE)
  /\ status = 200
  /\ h.failed
  /\ calls.pause = 1

\* C26: when open fails because a key it reads is missing from params, the
\* error is raised before disks_service.add is called: no remote disk exists
C26_NoDiskOnMissingKey ==
  (pc = "open_failed" /\ ~(ParamKeys \subseteq params.keys))
    => (lastCall.exc = "KeyError" /\ disk = "absent")

\* C27: config with a key other than params raises RuntimeError and leaves
\* params as it was; config_complete raises RuntimeError when params was
\* never loaded; nothing else runs before params is loaded
C27_ConfigRejects ==
  /\ [][ (pc = "load" /\ args' # <<>> /\ args'[1] # "params")
           => ( /\ pc' = "config_failed"
                /\ lastCall' =
                     Call("config", "RuntimeError: unknown configuration key",
                          FALSE)
                /\ params' = params ) ]_vars
  /\ [][ (pc = "load" /\ args' = <<>> /\ ~params.loaded)
           => ( /\ pc' = "config_failed"
                /\ lastCall' =
                     Call("config_complete",
                          "RuntimeError: missing configuration parameters",
                          FALSE)
                /\ params' = params ) ]_vars
  /\ [](pc \notin {"load", "config_failed"} => params.loaded)

C27_Witness ==
  /\ pc = "config_failed"
  /\ args = <<"verbose">>
  /\ lastCall.op = "config"
  /\ "disk_size" \notin params.keys
  /\ "rhv_direct" \in params.keys

\* C29: with two open handles and their calls in any order, a call on one
\* handle leaves the failed flag, highestwrite, the capabilities and the
\* data channel of the other handle as they were; the failed flag of a
\* handle is set only by a call on that handle whose request got an
\* unexpected status; and close takes the path that removes the disk first
\* only for a handle whose own failed flag is set
C29_HandlesIndependent ==
  /\ [][ \/ other' = other
         \/ (other' = h /\ h' = other /\ lastCall' = lastCall) ]_vars
  /\ [][ (h'.failed /\ ~h.failed)
           => \/ (other' = h /\ h' = other /\ other.failed)
              \/ (other' = other /\ lastCall'.exc # "none"
                  /\ status' \notin {0, ExpectedStatus(lastCall'.op)}) ]_vars
  /\ [][ (pc = "ready" /\ pc' = "closed" /\ steps'[1] = "remove")
           => h.failed ]_vars

C29_Witness ==
  /\ other.failed
  /\ other.highestwrite > h.highestwrite
  /\ ~h.failed
  /\ h.highestwrite > 0
  /\ pc = "close_poll"
  /\ lastCall = Call("close", "running", FALSE)

\* C31: every GET and every PUT sent by pread, pwrite and the emulated zero
\* carries the Authorization header if needs_auth of the handle is true,
\* and none of them carries it if needs_auth is false
C31_TicketIffNeedsAuth ==
  (pc = "ready" /\ lastCall.op \in {"pread", "pwrite", "zero"})
    => \A i \in DOMAIN sent :
         sent[i].method \in {"GET", "PUT"} => (sent[i].auth <=> h.needs_auth)

C31_Witness ==
  /\ pc = "ready"
  /\ lastCall.op = "zero"
  /\ h.needs_auth
  /\ sent # <<>>
  /\ sent[1].method = "PUT"
  /\ sent[1].auth

\* the counts at which the sends of emulate_zero are compared with the
\* closed form: none, one byte, around one buffer, around two, 1,000,000
ZeroCounts ==
  {0, 1, 4096, 131071, 131072, 131073, 262144, 262145, 1000000}

\* ceil(count / 131072)
CeilChunks(count) == (count + 131071) \div 131072

C33_UnixSocketUpgrade ==
  /\ [][ (pc = "open_connect" /\ pc' = "ready")
           => /\ h'.http \in {"net", "unix"}
              /\ h'.http = "unix"
                   => ( /\ rhv_direct
                        /\ host # "None"
                        /\ probe'.status = 200
                        /\ probe'.unix_socket
                        /\ ~probe'.unix_error ) ]_vars
  /\ [][ (pc = "open_connect" /\ probe'.unix_error)
           => ( /\ pc' = "ready"
                /\ lastCall' = Call("open", "none", FALSE)
                /\ h'.http = "net" ) ]_vars
  /\ [][ (pc \in {"ready", "close_poll"}) => h'.http = h.http ]_vars
  /\ [](pc \notin {"ready", "close_poll", "closed"} => h.http = "none")

C33_Witness ==
  /\ pc = "ready"
  /\ lastCall = Call("open", "none", FALSE)
  /\ rhv_direct
  /\ probe.unix_socket
  /\ probe.unix_error
  /\ h.http = "net"

\* C34: every PUT request sent, by pwrite and by the emulated zero alike,
\* is addressed to the path with the query flush=n
C34_EveryPutFlushN ==
  \A i \in DOMAIN sent : sent[i].method = "PUT" => sent[i].query = "flush=n"

\* C35: the OVF document the create-VM script passes to vms_service.add as
\* configuration data is the document read from the file with every
\* @SD_UUID@ replaced by the id of the storage domain
C35_PlaceholderReplaced ==
  createvm.data # <<>>
    => /\ createvm.data =
            replace(createvm.ovf_file, "@SD_UUID@", createvm.sd_uuid)
       /\ "@SD_UUID@" \notin Range(createvm.data)

\* C36: the delete-disks script calls remove() for the uuids of
\* params['disk_uuids'] in list order; NotFoundError, raised for a disk that
\* no longer exists, never ends it; each iteration moves on to the next
\* uuid unless remove() raises another error; and when the script has
\* ended normally it has requested the removal of every uuid listed and
\* every listed disk that existed is removed
C36_DeleteDisks ==
  /\ [](deletedisks.pc \in {"loop", "done"}
          => /\ deletedisks.requested =
                  SubSeq(deletedisks.disk_uuids, 1, deletedisks.i - 1)
             /\ deletedisks.exc = "none")
  /\ [](deletedisks.pc = "failed" => deletedisks.exc = "sdk.Error")
  /\ [](deletedisks.pc = "done"
          => /\ deletedisks.requested = deletedisks.disk_uuids
             /\ deletedisks.removed =
                  Range(deletedisks.disk_uuids) \ deletedisks.missing
             /\ deletedisks.existing = {})
  /\ [][ (deletedisks.pc = "loop" /\ deletedisks' # deletedisks)
           => \/ deletedisks'.pc = "done"
                   /\ deletedisks.i = Len(deletedisks.disk_uuids) + 1
              \/ deletedisks'.pc = "loop" /\ deletedisks'.i = deletedisks.i + 1
              \/ deletedisks'.pc = "failed"
                   /\ deletedisks.disk_uuids[deletedisks.i]
                        \in deletedisks.existing ]_vars

C36_Witness ==
  /\ deletedisks.pc = "done"
  /\ deletedisks.disk_uuids = <<"disk1", "disk2">>
  /\ deletedisks.missing = {"disk1"}
  /\ deletedisks.removed = {"disk2"}
  /\ deletedisks.requested = <<"disk1", "disk2">>

\* C37: on every handle open returns, needs_auth is false if any of
\* can_flush, can_trim, can_zero is true; no PATCH carries the Authorization
\* header, and a PATCH for a feature the handle has goes to a server that
\* needs no authentication
C37_FeaturesImplyNoAuth ==
  /\ pc \in {"ready", "close_poll", "closed"}
       => ((h.can_flush \/ h.can_trim \/ h.can_zero) => ~h.needs_auth)
  /\ \A i \in DOMAIN sent :
       sent[i].method = "PATCH"
         => /\ ~sent[i].auth
            /\ ( \/ sent[i].op = "zero" /\ h.can_zero
                 \/ sent[i].op = "trim" /\ h.can_trim
                 \/ sent[i].op = "flush" /\ h.can_flush ) => ~h.needs_auth

C37_Witness ==
  /\ pc = "ready"
  /\ ~rhv_direct
  /\ h.can_trim /\ ~h.can_flush /\ ~h.can_zero
  /\ ~h.needs_auth
  /\ lastCall = Call("trim", "none", FALSE)
  /\ sent # <<>>
  /\ sent[1].method = "PATCH"

\* C38: over the data operations on a handle and its close,
\* transfer_service.finalize() and transfer_service.pause() are never both
\* called: finalize is called at most once, only by a close of a handle
\* none of whose requests got an unexpected status, and pause is not called
\* once finalize has been
C38_FinalizeOrPause ==
  /\ [](calls.finalize <= 1)
  /\ [](~(calls.finalize > 0 /\ calls.pause > 0))
  /\ [][ calls'.finalize # calls.finalize
           => ( /\ pc = "ready"
                /\ lastCall'.op = "close"
                /\ ~h.failed
                /\ failedOps' = {}
                /\ calls.pause = 0 ) ]_vars
  /\ [][ calls.finalize > 0 => calls'.pause = calls.pause ]_vars

C38_Witness ==
  /\ pc = "closed"
  /\ lastCall.op = "close"
  /\ ~lastCall.failedBefore
  /\ steps = <<"flush", "remove">>
  /\ calls.pause = 1
  /\ calls.finalize = 0

\* C39: over the data operations on a handle and its close,
\* disk_service.remove() is called at most once, and not at all when close
\* has written the diskid file and returned
C39_RemoveAtMostOnce ==
  /\ calls.remove <= 1
  /\ (pc = "closed" /\ lastCall = Call("close", "none", FALSE))
       => (calls.remove = 0 /\ diskid_file # <<>>)
  /\ (pc = "closed" /\ diskid_file # <<>>) => calls.remove = 0

C39_Witness ==
  /\ pc = "closed"
  /\ lastCall = Call("close", "RuntimeError: finalize timeout", FALSE)
  /\ calls.remove = 1
  /\ calls.finalize = 1
  /\ diskid_file = <<>>

====
